---------------------------- MODULE Spec2Model ----------------------------
(***************************************************************************)
(* A model of the watermark service (Ubanillx/watermarker).                *)
(*                                                                         *)
(*   services/watermark_service.py  colour conversion, font resolution,    *)
(*                                  the three renderers, the dispatcher    *)
(*   main.py                        the three request flows, the registry  *)
(*   utils/file_handler.py          type detection, output files           *)
(*   models.py, config.py           option defaults and ranges             *)
(*                                                                         *)
(* The module holds several specifications over one set of variables.      *)
(* Each one drives one part of the program and leaves the variables of     *)
(* the other parts at their idle values:                                   *)
(*                                                                         *)
(*   SpecRgb       hex_to_rgb on bounded strings                           *)
(*   SpecRgba      hex_to_rgba on bounded opacities                        *)
(*   SpecFont      get_font and the renderers over bounded filesystems     *)
(*   SpecGeom      the placement of the raster renderer                    *)
(*   SpecDispatch  the dispatcher add_watermark on bounded arguments       *)
(*   Spec          the three request flows                                 *)
(*   SpecPool      renders running concurrently in the thread pool         *)
(*   SpecCorner    the corner helpers of the raster and PDF renderers      *)
(*   SpecPdf       the page loop of the PDF renderer                       *)
(*   SpecTasks     the async endpoint, its background job, status queries  *)
(*   SpecTasksFair SpecTasks with every step of a started job taken        *)
(*                                                                         *)
(* Strings that the program inspects character by character are sequences  *)
(* of one-character strings.  Floats that the program only multiplies and  *)
(* truncates are exact fractions (a numerator over a denominator).         *)
(***************************************************************************)
EXTENDS Integers, Sequences, FiniteSets, TLC

VARIABLES
    hex_color,          \* SpecRgb: the argument of hex_to_rgb
    rgb_ret,            \* SpecRgb: what the call returned or raised
    rgba_args,          \* SpecRgba: the arguments of hex_to_rgba
    rgba_ret,           \* SpecRgba: what the call returned or raised
    fs,                 \* the font files: path -> "absent" or what it holds
    custom_font_path,   \* config.CUSTOM_FONT_PATH ("" when unset)
    glob_order,         \* the order in which glob enumerates the font root
    font_call,          \* SpecFont: the call made and its result
    geom_in,            \* SpecGeom: canvas, text metrics, options
    geom_out,           \* SpecGeom: what was drawn where
    disp_args,          \* SpecDispatch: the arguments of add_watermark
    disp_ret,           \* SpecDispatch: what the call returned or raised
    requests,           \* Spec: request number -> its flow's state
    tasks,              \* Spec: the task registry of main.py
    output_dir,         \* Spec: request number -> its output file
    jobs,               \* SpecPool: worker -> the render it runs
    pdfmetrics_fonts,   \* SpecPool: reportlab's process-wide font registry
    access_log,         \* SpecPool: which render read or wrote what
    corner_in,          \* SpecCorner: the arguments of a corner helper
    corner_out,         \* SpecCorner: the offset it returned
    pdf_job,            \* SpecPdf: a PDF render, step by step
    last_query          \* SpecTasks: what the last status query returned

rgbVars == <<hex_color, rgb_ret>>

rgbaVars == <<rgba_args, rgba_ret>>

fontEnvVars == <<fs, custom_font_path, glob_order>>

geomVars == <<geom_in, geom_out>>

dispVars == <<disp_args, disp_ret>>

flowVars == <<requests, tasks, output_dir>>

poolVars == <<jobs, pdfmetrics_fonts, access_log>>

cornerVars == <<corner_in, corner_out>>

pdfVars == <<pdf_job>>

queryVars == <<last_query>>

vars == <<last_query,
          pdf_job,
          corner_in, corner_out,
          hex_color, rgb_ret, rgba_args, rgba_ret, fs, custom_font_path,
          glob_order, font_call, geom_in, geom_out, disp_args, disp_ret,
          requests, tasks, output_dir, jobs, pdfmetrics_fonts, access_log>>

\* What each part's actions leave alone: the variables of the other parts.
RgbFrame ==
    UNCHANGED <<queryVars, pdfVars, cornerVars, rgbaVars, fontEnvVars, font_call, geomVars, dispVars,
                flowVars, poolVars>>

RgbaFrame ==
    UNCHANGED <<queryVars, pdfVars, cornerVars, rgbVars, fontEnvVars, font_call, geomVars, dispVars,
                flowVars, poolVars>>

FontFrame ==
    UNCHANGED <<queryVars, pdfVars, cornerVars, rgbVars, rgbaVars, geomVars, dispVars, flowVars, poolVars>>

GeomFrame ==
    UNCHANGED <<queryVars, pdfVars, cornerVars, rgbVars, rgbaVars, fontEnvVars, font_call, dispVars,
                flowVars, poolVars>>

DispatchFrame ==
    UNCHANGED <<queryVars, pdfVars, cornerVars, rgbVars, rgbaVars, fontEnvVars, font_call, geomVars,
                flowVars, poolVars>>

FlowFrame ==
    UNCHANGED <<queryVars, pdfVars, cornerVars, rgbVars, rgbaVars, fontEnvVars, font_call, geomVars,
                dispVars, poolVars>>

PoolFrame ==
    UNCHANGED <<queryVars, pdfVars, cornerVars, rgbVars, rgbaVars, fontEnvVars, font_call, geomVars,
                dispVars, flowVars>>

CornerFrame ==
    UNCHANGED <<queryVars, pdfVars, rgbVars, rgbaVars, fontEnvVars, font_call, geomVars,
                dispVars, flowVars, poolVars>>

PdfFrame ==
    UNCHANGED <<queryVars, rgbVars, rgbaVars, fontEnvVars, font_call, geomVars,
                dispVars, flowVars, poolVars, cornerVars>>

QueryFrame ==
    UNCHANGED <<rgbVars, rgbaVars, fontEnvVars, font_call, geomVars,
                dispVars, flowVars, poolVars, cornerVars, pdfVars>>
\* ------------------------------------------------------------------------
\* Small helpers
\* ------------------------------------------------------------------------

Min(a, b) == IF a <= b THEN a ELSE b

Max(a, b) == IF a >= b THEN a ELSE b

\* Python s[i:j] for 0 <= i <= j on a sequence: clipped to the length, never
\* an error.
Slice(s, i, j) == SubSeq(s, i + 1, Min(j, Len(s)))

\* All sequences over S of length 0..n.
SeqsUpTo(S, n) == UNION {[1..k -> S] : k \in 0..n}

\* The value a call has not produced yet.
NoCall == [called |-> FALSE, ok |-> FALSE, val |-> <<>>, err |-> "none"]

Returned(v) == [called |-> TRUE, ok |-> TRUE, val |-> v, err |-> "none"]

Raised(e) == [called |-> TRUE, ok |-> FALSE, val |-> <<>>, err |-> e]

\* ------------------------------------------------------------------------
\* ColorModel: hex_to_rgb, hex_to_rgba (watermark_service.py 25-35)
\* ------------------------------------------------------------------------

\* Longest colour string tried.  "#RRGGBB" has 7 characters; 7 also admits
\* seven digits without '#', and "##" followed by five digits.
MaxHexLen == 7

\* The characters colour strings are drawn from: '#', hex digits in both
\* cases, a letter that is no hex digit, and the sign int() accepts.
HexAlphabet == {"#", "0", "8", "f", "F", "g", "-"}

HexDigits == {"0", "8", "f", "F"}

HexVal(c) == CASE c = "0" -> 0
               [] c = "8" -> 8
               [] c \in {"f", "F"} -> 15
               [] OTHER -> -1

\* str.lower() on the alphabet.
LowerChar(c) == IF c = "F" THEN "f" ELSE c

UpperChar(c) == IF c = "f" THEN "F" ELSE c

Lower(s) == [i \in 1..Len(s) |-> LowerChar(s[i])]

Upper(s) == [i \in 1..Len(s) |-> UpperChar(s[i])]

\* str.lstrip("#"): every leading '#' is removed, not only the first.
RECURSIVE lstrip(_)
lstrip(s) == IF s # <<>> /\ Head(s) = "#" THEN lstrip(Tail(s)) ELSE s

\* int(s, 16) for a string of at most two characters of the alphabet:
\* one or two hex digits, or a sign followed by one hex digit; anything
\* else (the empty string included) raises ValueError.
PyInt16(s) ==
    CASE Len(s) = 1 /\ s[1] \in HexDigits ->
            [ok |-> TRUE, val |-> HexVal(s[1])]
      [] Len(s) = 2 /\ s[1] \in HexDigits /\ s[2] \in HexDigits ->
            [ok |-> TRUE, val |-> 16 * HexVal(s[1]) + HexVal(s[2])]
      [] Len(s) = 2 /\ s[1] = "-" /\ s[2] \in HexDigits ->
            [ok |-> TRUE, val |-> 0 - HexVal(s[2])]
      [] OTHER -> [ok |-> FALSE, val |-> 0]

\* hex_to_rgb: lstrip, then int() of the slices [0:2], [2:4], [4:6].
hex_to_rgb(hex) ==
    LET h == lstrip(hex)
        part(i) == PyInt16(Slice(h, i, i + 2))
    IN  IF part(0).ok /\ part(2).ok /\ part(4).ok
        THEN Returned(<<part(0).val, part(2).val, part(4).val>>)
        ELSE Raised("ValueError")

\* Opacities are the fractions n / OpacityDen, n in 0..OpacityDen.
OpacityDen == 100

\* The slip the alpha is checked against: round() instead of int().
alpha_rounded(n, d) == (2 * n * 255 + d) \div (2 * d)

\* The alpha byte of hex_to_rgba (line 34): int(opacity * 255) for the
\* opacity n/d.  int() truncates toward zero, which for a non-negative
\* value is the floor.  (The float product of k/100 and 255 truncates to
\* the same integer as the exact product, for every k in 0..100.)
alpha_of(n, d) == (n * 255) \div d

\* hex_to_rgba: the colour of hex_to_rgb, then the alpha; an error of
\* hex_to_rgb propagates.
hex_to_rgba(hex, n, d) ==
    LET c == hex_to_rgb(hex)
    IN  IF c.ok THEN Returned(c.val \o <<alpha_of(n, d)>>) ELSE c

\* The default colour of WatermarkConfig (models.py 30).
DefaultColor == <<"#", "8", "0", "8", "0", "8", "0">>

\* Colours hex_to_rgba is tried on: valid ones in both cases, and a
\* malformed one.
ColorSamples ==
    { DefaultColor,
      <<"#", "f", "F", "0", "0", "8", "8">>,
      <<"F", "F", "F", "F", "F", "F">>,
      <<"#", "g", "g">> }

\* ------------------------------------------------------------------------
\* FontResolver: _find_cjk_fonts, get_font (watermark_service.py 38-105)
\* and the font registration of the PDF overlay (290-320)
\* ------------------------------------------------------------------------

\* The predefined list, in list order (lines 39-53).
CHINESE_FONT_PATHS ==
    << "/usr/share/fonts/chinese/LXGWWenKai-Regular.ttf",
       "C:/Windows/Fonts/msyh.ttc",
       "C:/Windows/Fonts/msyhbd.ttc",
       "C:/Windows/Fonts/simhei.ttf",
       "C:/Windows/Fonts/simsun.ttc",
       "C:/Windows/Fonts/simkai.ttf",
       "C:/Windows/Fonts/STZHONGS.TTF",
       "/System/Library/Fonts/PingFang.ttc",
       "/System/Library/Fonts/STHeiti Light.ttc",
       "/Library/Fonts/Arial Unicode.ttf" >>

PredefinedPaths == {CHINESE_FONT_PATHS[i] : i \in 1..Len(CHINESE_FONT_PATHS)}

\* Files that may lie under /usr/share/fonts, by the glob pattern that
\* matches them.  The first .ttf file is also the first predefined path.
OtfFiles == {"/usr/share/fonts/opentype/a.otf"}

TtfFiles == {"/usr/share/fonts/chinese/LXGWWenKai-Regular.ttf",
             "/usr/share/fonts/truetype/b.ttf"}

TtcFiles == {"/usr/share/fonts/truetype/c.ttc"}

FontRootFiles == OtfFiles \cup TtfFiles \cup TtcFiles

\* The values CUSTOM_FONT_PATH is tried with: unset, a path of its own, and
\* a path that is also in the predefined list.
CustomFontFile == "/opt/fonts/custom.ttf"

CustomSettings == {"", CustomFontFile, "C:/Windows/Fonts/simhei.ttf"}

FontPaths == {CustomFontFile} \cup PredefinedPaths \cup FontRootFiles

\* What a present file holds: a TrueType font both libraries load, a font
\* with PostScript outlines (FreeType loads it, reportlab's TTFont does
\* not), or bytes that are no font.
FileKinds == {"font", "cff", "corrupt"}

\* At most this many of the candidate files are present at once.
MaxFiles == 2

\* The filesystems tried: every choice of at most MaxFiles present files
\* and of what each holds.
FileSystems ==
    UNION { { [p \in FontPaths |-> IF p \in S THEN k[p] ELSE "absent"] :
                k \in [S -> FileKinds] } :
            S \in {T \in SUBSET FontPaths : Cardinality(T) <= MaxFiles} }

\* The orders in which glob may enumerate the font root: one and its
\* reverse, so that each pair of files is seen in both orders.
GlobOrders ==
    { << "/usr/share/fonts/opentype/a.otf",
         "/usr/share/fonts/chinese/LXGWWenKai-Regular.ttf",
         "/usr/share/fonts/truetype/b.ttf",
         "/usr/share/fonts/truetype/c.ttc" >>,
      << "/usr/share/fonts/truetype/c.ttc",
         "/usr/share/fonts/truetype/b.ttf",
         "/usr/share/fonts/chinese/LXGWWenKai-Regular.ttf",
         "/usr/share/fonts/opentype/a.otf" >> }

\* Path(p).exists()
PathExists(p) == p \in DOMAIN fs /\ fs[p] # "absent"

\* ImageFont.truetype(p, size) returns (it raises otherwise).
TruetypeLoads(p) == fs[p] \in {"font", "cff"}

\* pdfmetrics.registerFont(TTFont(name, p)) returns (it raises otherwise).
TTFontLoads(p) == fs[p] = "font"

\* glob.glob(pattern, recursive=True) for one pattern: the present files
\* the pattern matches, in enumeration order.
Glob(matching) ==
    SelectSeq(glob_order, LAMBDA p : p \in matching /\ PathExists(p))

\* _find_cjk_fonts: the three patterns in the order .otf, .ttf, .ttc.
_find_cjk_fonts == Glob(OtfFiles) \o Glob(TtfFiles) \o Glob(TtcFiles)

\* A slip the order is checked against: the custom path after the list.
font_paths_custom_last ==
    CHINESE_FONT_PATHS
      \o (IF custom_font_path # "" /\ PathExists(custom_font_path)
          THEN <<custom_font_path>> ELSE <<>>)
      \o _find_cjk_fonts

\* The candidate list of get_font (lines 78-83) and of the PDF overlay
\* (lines 295-299): the custom path if set and present, the predefined
\* list, the scan.
font_paths ==
    (IF custom_font_path # "" /\ PathExists(custom_font_path)
     THEN <<custom_font_path>> ELSE <<>>)
      \o CHINESE_FONT_PATHS
      \o _find_cjk_fonts

\* What get_font and the renderers return or raise.
FontNoCall == [called |-> FALSE, ok |-> FALSE, font |-> "none", err |-> "none"]

FontReturned(f) == [called |-> TRUE, ok |-> TRUE, font |-> f, err |-> "none"]

FontRaised(e) == [called |-> TRUE, ok |-> FALSE, font |-> "none", err |-> e]

RECURSIVE font_loop(_)

\* A slip the fallback is checked against: no try/except around truetype.
load_error_raises(rest) == FontRaised("OSError")

\* Lines 99-101: the load error is logged and the loop continues.
load_error_continues(rest) == font_loop(rest)

\* The loop of get_font (lines 87-105) over the remaining candidates: the
\* first that exists and loads is returned, and load_default() at the end.
font_loop(paths) ==
    IF paths = <<>> THEN FontReturned("load_default")
    ELSE IF ~PathExists(Head(paths)) THEN font_loop(Tail(paths))
    ELSE IF TruetypeLoads(Head(paths)) THEN FontReturned(Head(paths))
    ELSE load_error_continues(Tail(paths))

get_font == font_loop(font_paths)

\* The loop of _create_watermark_pdf (lines 301-318): the first candidate
\* that exists and registers gives the font name; a candidate that fails
\* to register is skipped; "Helvetica" is kept when none registers.
RECURSIVE register_loop(_)
register_loop(paths) ==
    IF paths = <<>> THEN "Helvetica"
    ELSE IF PathExists(Head(paths)) /\ TTFontLoads(Head(paths))
         THEN Head(paths)
         ELSE register_loop(Tail(paths))

pdf_font == register_loop(font_paths)

FontEnvIdle ==
    /\ fs = [p \in FontPaths |-> "absent"]
    /\ custom_font_path = ""
    /\ glob_order \in GlobOrders
    /\ glob_order[1] \in OtfFiles

FontEnvInit ==
    /\ fs \in FileSystems
    /\ custom_font_path \in CustomSettings
    /\ glob_order \in GlobOrders

\* ------------------------------------------------------------------------
\* Placement in the raster renderer (watermark_service.py 141-163, 179-242)
\* ------------------------------------------------------------------------

\* WatermarkPosition (models.py 17-24).
Positions == {"tile", "center", "top_left", "top_right",
              "bottom_left", "bottom_right"}

Corners == {"top_left", "top_right", "bottom_left", "bottom_right"}

\* Canvas widths and heights are 1..MaxCanvas.
MaxCanvas == 24

\* Measured text widths and heights are 0..MaxText.
MaxText == 3

\* The smallest spacing WatermarkConfig admits (models.py 33).
MinSpacing == 20

SpacingSamples == {MinSpacing, MinSpacing + 1}

AngleSamples == {0, -45}

\* The margin of the raster corner positions (line 232).
RasterMargin == 20

\* The integer square root.
Isqrt(n) == CHOOSE r \in 0..n : r * r <= n /\ n < (r + 1) * (r + 1)

\* A slip the surface is checked against: a surface of the canvas's size.
temp_size_of_canvas(w, h) == Max(w, h)

\* int(math.sqrt(w**2 + h**2) * 1.5) (lines 192-195).  The floor of
\* 1.5 * sqrt(n) is the integer square root of floor(9n/4); the float
\* computation gives the same integer for the sizes tried.
temp_size_of(w, h) == Isqrt((9 * (w * w + h * h)) \div 4)

\* range(0, stop, step) for step > 0.
Range0(stop, step) == {k * step : k \in {j \in 0..stop : j * step < stop}}

\* _add_tile_watermark (lines 179-222): the surface, the grid the text is
\* drawn on, the rotation of the surface and the crop box.
_add_tile_watermark(w, h, text_width, text_height, spacing, angle) ==
    LET temp_size == temp_size_of(w, h)
        step_x == text_width + spacing
        step_y == text_height + spacing
        center_x == temp_size \div 2
        center_y == temp_size \div 2
        left == center_x - w \div 2
        top == center_y - h \div 2
    IN  [ kind |-> "tile",
          temp_size |-> temp_size,
          draws |-> Range0(temp_size, step_x) \X Range0(temp_size, step_y),
          surface_rotation |-> angle,
          left |-> left, top |-> top,
          right |-> left + w, bottom |-> top + h ]

\* ImageWatermarker._get_corner_position (lines 225-242).
_get_corner_position(w, h, text_width, text_height, position) ==
    LET margin == RasterMargin
    IN  CASE position = "top_left" -> <<margin, margin>>
          [] position = "top_right" -> <<w - text_width - margin, margin>>
          [] position = "bottom_left" -> <<margin, h - text_height - margin>>
          [] position = "bottom_right" ->
                <<w - text_width - margin, h - text_height - margin>>
          [] OTHER -> <<margin, margin>>

\* The CENTER branch (lines 149-150); // is the floor division.
center_position(w, h, text_width, text_height) ==
    <<(w - text_width) \div 2, (h - text_height) \div 2>>

\* A slip the rotation is checked against: the layer rotated in every
\* mode.
layer_rotation_always(position, angle) == angle

\* Lines 160-163: the layer is rotated unless the mode is TILE or the
\* angle is 0.  0 stands for "not rotated".
layer_rotation(position, angle) ==
    IF position # "tile" /\ angle # 0 THEN angle ELSE 0

GeomNoCall ==
    [ kind |-> "none", temp_size |-> 0, draws |-> {}, surface_rotation |-> 0,
      left |-> 0, top |-> 0, right |-> 0, bottom |-> 0, layer_rotation |-> 0 ]

\* What a single draw at <<x, y>> leaves on the overlay.
SingleDraw(xy, position, angle) ==
    [ kind |-> "text", temp_size |-> 0, draws |-> {xy}, surface_rotation |-> 0,
      left |-> 0, top |-> 0, right |-> 0, bottom |-> 0,
      layer_rotation |-> layer_rotation(position, angle) ]

GeomInputs ==
    [ w : 1..MaxCanvas, h : 1..MaxCanvas,
      text_width : 0..MaxText, text_height : 0..MaxText,
      spacing : SpacingSamples, angle : AngleSamples, position : Positions ]

GeomIdle ==
    /\ geom_in = [ w |-> 1, h |-> 1, text_width |-> 0, text_height |-> 0,
                   spacing |-> MinSpacing, angle |-> 0, position |-> "tile" ]
    /\ geom_out = GeomNoCall

\* The TILE branch of ImageWatermarker.add_watermark (lines 141-146).
PlaceTile ==
    /\ geom_out.kind = "none"
    /\ geom_in.position = "tile"
    /\ geom_out' =
          LET t == _add_tile_watermark(geom_in.w, geom_in.h,
                       geom_in.text_width, geom_in.text_height,
                       geom_in.spacing, geom_in.angle)
          IN  [ kind |-> "tile", temp_size |-> t.temp_size,
                draws |-> t.draws, surface_rotation |-> t.surface_rotation,
                left |-> t.left, top |-> t.top, right |-> t.right,
                bottom |-> t.bottom,
                layer_rotation |-> layer_rotation("tile", geom_in.angle) ]
    /\ UNCHANGED geom_in
    /\ GeomFrame

\* The CENTER branch (lines 147-151).
PlaceCenter ==
    /\ geom_out.kind = "none"
    /\ geom_in.position = "center"
    /\ geom_out' = SingleDraw(center_position(geom_in.w, geom_in.h,
                                 geom_in.text_width, geom_in.text_height),
                              geom_in.position, geom_in.angle)
    /\ UNCHANGED geom_in
    /\ GeomFrame

\* The corner branch (lines 152-157).
PlaceCorner ==
    /\ geom_out.kind = "none"
    /\ geom_in.position \notin {"tile", "center"}
    /\ geom_out' = SingleDraw(_get_corner_position(geom_in.w, geom_in.h,
                                 geom_in.text_width, geom_in.text_height,
                                 geom_in.position),
                              geom_in.position, geom_in.angle)
    /\ UNCHANGED geom_in
    /\ GeomFrame


\* ------------------------------------------------------------------------
\* The two corner helpers (watermark_service.py 225-242, 351-368)
\* ------------------------------------------------------------------------

\* The page of the overlay: pagesize=letter, in points (line 280-281).
LetterWidth == 612

LetterHeight == 792

\* The margin of the page corner positions (line 359).
PageMargin == 50

\* PDFWatermarker._get_corner_position (lines 351-368).  The text width is
\* font_size * text_len * 0.6, so every length is given in tenths of a
\* point to stay in the integers.  The dictionary's default is
\* (margin, margin).
PDFWatermarker_get_corner_position(width, height, font_size, text_len, position) ==
    LET margin == 10 * PageMargin
        text_width == 6 * font_size * text_len
        w == 10 * width
        h == 10 * height
    IN  CASE position = "top_left" -> <<margin, h - margin>>
          [] position = "top_right" -> <<w - text_width - margin, h - margin>>
          [] position = "bottom_left" -> <<margin, margin>>
          [] position = "bottom_right" -> <<w - text_width - margin, margin>>
          [] OTHER -> <<margin, margin>>

\* The values a helper is called with: canvases and text boxes of the
\* raster renderer, font sizes and text lengths of the page renderer, and
\* as position the six enum values and a value outside them.
CornerSizes == {1, 30, 100}

CornerTextSizes == {0, 12, 40}

CornerFontSizes == {10, 40, 200}

CornerTextLens == {0, 1, 4}

CornerPositions == Positions \cup {"other"}

CornerInputs ==
    [ helper : {"raster", "page"},
      w : CornerSizes, h : CornerSizes,
      text_width : CornerTextSizes, text_height : CornerTextSizes,
      font_size : CornerFontSizes, text_len : CornerTextLens,
      position : CornerPositions ]

CornerIdle ==
    /\ corner_in = [ helper |-> "none", w |-> 1, h |-> 1, text_width |-> 0,
                     text_height |-> 0, font_size |-> 10, text_len |-> 0,
                     position |-> "top_left" ]
    /\ corner_out = <<>>

\* ImageWatermarker._get_corner_position is called (lines 154-156).
CallRasterCorner ==
    /\ corner_out = <<>>
    /\ corner_in.helper = "raster"
    /\ corner_out' = _get_corner_position(corner_in.w, corner_in.h,
                         corner_in.text_width, corner_in.text_height,
                         corner_in.position)
    /\ UNCHANGED corner_in
    /\ CornerFrame

\* PDFWatermarker._get_corner_position is called on the letter page
\* (lines 342-344).
CallPageCorner ==
    /\ corner_out = <<>>
    /\ corner_in.helper = "page"
    /\ corner_out' = PDFWatermarker_get_corner_position(LetterWidth,
                         LetterHeight, corner_in.font_size,
                         corner_in.text_len, corner_in.position)
    /\ UNCHANGED corner_in
    /\ CornerFrame

\* ------------------------------------------------------------------------
\* PDFWatermarker.add_watermark, page by page (watermark_service.py 249-274)
\* ------------------------------------------------------------------------

\* Input documents have at most this many pages.
MaxPages == 3

\* What a page holds, to tell the pages of a document apart.
PageContents == {"a", "b", "c"}

\* A page as the reader yields it, and the number of overlays merged on it.
InputPage(content) == [content |-> content, overlays |-> 0]

\* A slip the loop is checked against: the page is added unmerged.
merge_page_skipped(page) == page

\* page.merge_page(watermark_page) (line 268): the overlay's content is
\* stacked on the page, the page's own content stays.
merge_page(page) == [page EXCEPT !.overlays = @ + 1]

PdfJobIdle ==
    [ pc |-> "idle", input |-> <<>>, overlays_built |-> 0, next |-> 1,
      writer |-> <<>>, output |-> <<>> ]

PdfIdle == pdf_job = PdfJobIdle

PdfInit ==
    \E doc \in SeqsUpTo(PageContents, MaxPages) :
        pdf_job = [PdfJobIdle EXCEPT !.pc = "called", !.input = doc]

\* _create_watermark_pdf is called (line 256); it returns the overlay
\* document or raises (a colour that is no hex string).
PdfCreateOverlay ==
    /\ pdf_job.pc = "called"
    /\ \E ok \in BOOLEAN :
          pdf_job' = IF ok
                     THEN [pdf_job EXCEPT !.pc = "overlay",
                                          !.overlays_built = @ + 1]
                     ELSE [pdf_job EXCEPT !.pc = "raised"]
    /\ PdfFrame

\* The input is parsed, the writer created and the overlay's first page
\* taken (lines 259-264); PdfReader raises on bytes that are no PDF.
PdfOpenInput ==
    /\ pdf_job.pc = "overlay"
    /\ \E ok \in BOOLEAN :
          pdf_job' = IF ok
                     THEN [pdf_job EXCEPT !.pc = "merging"]
                     ELSE [pdf_job EXCEPT !.pc = "raised"]
    /\ PdfFrame

\* One iteration of the loop (lines 267-269): the next page of the reader
\* is merged with the overlay page and added to the writer.
PdfMergePage ==
    /\ pdf_job.pc = "merging"
    /\ pdf_job.next <= Len(pdf_job.input)
    /\ pdf_job' = [pdf_job EXCEPT
          !.writer = Append(@,
                        merge_page(InputPage(pdf_job.input[pdf_job.next]))),
          !.next = @ + 1]
    /\ PdfFrame

\* The loop is over; the writer's pages are written and returned (lines
\* 272-274).
PdfWrite ==
    /\ pdf_job.pc = "merging"
    /\ pdf_job.next > Len(pdf_job.input)
    /\ pdf_job' = [pdf_job EXCEPT !.pc = "returned", !.output = pdf_job.writer]
    /\ PdfFrame
\* ------------------------------------------------------------------------
\* Options, the three renderers and the dispatcher
\* (models.py 27-34, watermark_service.py 108-176, 245-274, 371-476)
\* ------------------------------------------------------------------------

\* WatermarkConfig() with every field at its default (models.py 29-34).
\* The opacity 0.3 is the fraction 3/10.
WatermarkConfig ==
    [ font_size |-> 40, font_color |-> DefaultColor,
      opacity |-> [n |-> 3, d |-> 10], angle |-> -45, spacing |-> 100,
      position |-> "tile" ]

\* Other valid options.
CustomConfig ==
    [ font_size |-> 10, font_color |-> <<"#", "f", "F", "0", "0", "8", "8">>,
      opacity |-> [n |-> 1, d |-> 1], angle |-> 0, spacing |-> 20,
      position |-> "center" ]

\* Options with a colour that is no hex string.
BadColorConfig ==
    [ WatermarkConfig EXCEPT !.font_color = <<"#", "g", "g">>,
                             !.position = "top_left" ]

\* Options callers pass: the defaults, other valid values, and a colour
\* that is no hex string.
ConfigSamples == {WatermarkConfig, CustomConfig, BadColorConfig}

\* Optional[WatermarkConfig]: None, or a value.
NoConfig == [present |-> FALSE, value |-> WatermarkConfig]

SomeConfig(c) == [present |-> TRUE, value |-> c]

\* The Field constraints of WatermarkConfig (models.py 29-34), which
\* pydantic checks when a value is built or parsed: the ranges of
\* font_size, opacity, angle and spacing, and position a member of
\* WatermarkPosition.  font_color is a plain str.
WatermarkConfig_validates(c) ==
    /\ c.font_size >= 10 /\ c.font_size <= 200
    /\ c.opacity.n >= 0 /\ c.opacity.n <= c.opacity.d
    /\ c.angle >= -180 /\ c.angle <= 180
    /\ c.spacing >= 20 /\ c.spacing <= 500
    /\ c.position \in Positions

\* The options requests arrive with, by name: none at all, valid ones, a
\* colour that is no hex string, and one value outside each constraint.
RawOptionNames ==
    { "absent", "defaults", "custom", "bad_color", "small_font",
      "opacity_2", "angle_181", "spacing_19", "bad_position" }

RawOptions(name) ==
    CASE name = "absent" -> NoConfig
      [] name = "defaults" -> SomeConfig(WatermarkConfig)
      [] name = "custom" -> SomeConfig(CustomConfig)
      [] name = "bad_color" -> SomeConfig(BadColorConfig)
      [] name = "small_font" ->
            SomeConfig([WatermarkConfig EXCEPT !.font_size = 9])
      [] name = "opacity_2" ->
            SomeConfig([WatermarkConfig EXCEPT !.opacity = [n |-> 2, d |-> 1]])
      [] name = "angle_181" ->
            SomeConfig([WatermarkConfig EXCEPT !.angle = 181])
      [] name = "spacing_19" ->
            SomeConfig([WatermarkConfig EXCEPT !.spacing = 19])
      [] name = "bad_position" ->
            SomeConfig([WatermarkConfig EXCEPT !.position = "middle"])

\* Whether the boundary lets the options through: an absent config has
\* nothing to validate.
OptionsAccepted(name) ==
    ~RawOptions(name).present \/ WatermarkConfig_validates(RawOptions(name).value)

\* What the bytes handed to a renderer hold.
ContentKinds == {"image", "pdf", "word", "garbage"}

\* What a renderer or the dispatcher returns or raises: the renderer that
\* was invoked ("none" if none was), the options and the format it
\* received, the font it resolved, and whether the result was flattened to
\* an opaque pixel format.
RenderNoCall ==
    [ called |-> FALSE, ok |-> FALSE, err |-> "none", renderer |-> "none",
      config |-> WatermarkConfig, format |-> "none", font |-> "none",
      flattened |-> FALSE ]

RenderRaised(renderer, config, format, e) ==
    [ called |-> TRUE, ok |-> FALSE, err |-> e, renderer |-> renderer,
      config |-> config, format |-> format, font |-> "none",
      flattened |-> FALSE ]

RenderReturned(renderer, config, format, font, flattened) ==
    [ called |-> TRUE, ok |-> TRUE, err |-> "none", renderer |-> renderer,
      config |-> config, format |-> format, font |-> font,
      flattened |-> flattened ]

\* ImageWatermarker.add_watermark (lines 112-176): decode, resolve the
\* font, convert the colour, draw, composite, flatten for JPEG, encode.
\* The first step that raises ends the call.
ImageWatermarker_add_watermark(image_data, config, output_format) ==
    LET font == get_font
        color == hex_to_rgba(config.font_color, config.opacity.n,
                             config.opacity.d)
    IN  IF image_data.kind # "image"
        THEN RenderRaised("image", config, output_format,
                          "UnidentifiedImageError")
        ELSE IF ~font.ok
        THEN RenderRaised("image", config, output_format, font.err)
        ELSE IF ~color.ok
        THEN RenderRaised("image", config, output_format, color.err)
        ELSE RenderReturned("image", config,
                            IF output_format \in {"JPEG", "JPG"}
                            THEN "JPEG" ELSE output_format,
                            font.font, output_format \in {"JPEG", "JPG"})

\* PDFWatermarker.add_watermark (lines 249-274): the overlay is built
\* first (its colour conversion may raise, its font registration may
\* not), then the input is parsed and every page merged.
PDFWatermarker_add_watermark(pdf_data, config) ==
    LET color == hex_to_rgb(config.font_color)
    IN  IF ~color.ok
        THEN RenderRaised("pdf", config, "none", color.err)
        ELSE IF pdf_data.kind # "pdf"
        THEN RenderRaised("pdf", config, "none", "PdfReadError")
        ELSE RenderReturned("pdf", config, "none", pdf_font, FALSE)

\* WordWatermarker.add_watermark (lines 375-429): the document is opened,
\* then each section's header gets the shape; the font family of the
\* shape is a fixed name, no font file is resolved.
WordWatermarker_add_watermark(docx_data, config) ==
    LET color == hex_to_rgb(config.font_color)
    IN  IF docx_data.kind # "word"
        THEN RenderRaised("word", config, "none", "PackageNotFoundError")
        ELSE IF ~color.ok
        THEN RenderRaised("word", config, "none", color.err)
        ELSE RenderReturned("word", config, "none", "Microsoft YaHei", FALSE)

\* Extensions the dispatcher and the flows are tried with.
ExtSamples == {".jpg", ".JPG", ".jpeg", ".png", ".gif", ".bmp", ".webp",
               ".tiff", ".pdf", ".docx", ".doc", ".xlsx", ""}

\* str.lower() on the extensions.
LowerExt(e) == IF e = ".JPG" THEN ".jpg" ELSE e

\* A slip the mapping is checked against: the extension looked up as it
\* is written.
output_format_case_sensitive(file_extension) ==
    CASE file_extension \in {".jpg", ".jpeg"} -> "JPEG"
      [] file_extension = ".png" -> "PNG"
      [] file_extension = ".gif" -> "GIF"
      [] file_extension = ".bmp" -> "BMP"
      [] file_extension = ".webp" -> "WEBP"
      [] file_extension = ".tiff" -> "TIFF"
      [] OTHER -> "PNG"

\* format_map.get(file_extension.lower(), "PNG") (lines 457-466).
output_format_of(file_extension) ==
    LET e == LowerExt(file_extension)
    IN  CASE e \in {".jpg", ".jpeg"} -> "JPEG"
          [] e = ".png" -> "PNG"
          [] e = ".gif" -> "GIF"
          [] e = ".bmp" -> "BMP"
          [] e = ".webp" -> "WEBP"
          [] e = ".tiff" -> "TIFF"
          [] OTHER -> "PNG"

\* A slip the routing is checked against: the last branch taken as the
\* default instead of raising.
add_watermark_word_by_default(file_data, file_type, config, file_extension) ==
    LET cfg == IF config.present THEN config.value ELSE WatermarkConfig
    IN  CASE file_type = "image" ->
               ImageWatermarker_add_watermark(file_data, cfg,
                   output_format_of(file_extension))
          [] file_type = "pdf" -> PDFWatermarker_add_watermark(file_data, cfg)
          [] OTHER -> WordWatermarker_add_watermark(file_data, cfg)

\* add_watermark (lines 432-476), the dispatcher.  The watermark text is
\* passed through unread and is left out.
add_watermark(file_data, file_type, config, file_extension) ==
    LET cfg == IF config.present THEN config.value ELSE WatermarkConfig
    IN  CASE file_type = "image" ->
               ImageWatermarker_add_watermark(file_data, cfg,
                   output_format_of(file_extension))
          [] file_type = "pdf" -> PDFWatermarker_add_watermark(file_data, cfg)
          [] file_type = "word" -> WordWatermarker_add_watermark(file_data, cfg)
          [] OTHER -> RenderRaised("none", cfg, "none", "UnsupportedFileType")

\* The tags the dispatcher is tried with.
DispatchTags == {"image", "pdf", "word", "spreadsheet", "unknown", "auto", ""}

DispatchConfigs == {NoConfig} \cup {SomeConfig(c) : c \in ConfigSamples}

DispatchIdle ==
    /\ disp_args = [ file_data |-> [kind |-> "garbage"], file_type |-> "",
                     config |-> NoConfig, file_extension |-> "" ]
    /\ disp_ret = RenderNoCall

DispatchInit ==
    /\ disp_args \in [ file_data : [kind : ContentKinds],
                       file_type : DispatchTags,
                       config : DispatchConfigs,
                       file_extension : ExtSamples ]
    /\ disp_ret = RenderNoCall

CallAddWatermark ==
    /\ ~disp_ret.called
    /\ disp_ret' = add_watermark(disp_args.file_data, disp_args.file_type,
                                 disp_args.config, disp_args.file_extension)
    /\ UNCHANGED disp_args
    /\ DispatchFrame

\* Calls of the font specification: get_font itself, and a raster and a
\* PDF render of a well-formed input with the default options.
FontCallNone ==
    [op |-> "none", font |-> FontNoCall, render |-> RenderNoCall]

FontCallIdle == font_call = FontCallNone

CallGetFont ==
    /\ font_call.op = "none"
    /\ font_call' = [font_call EXCEPT !.op = "get_font", !.font = get_font]
    /\ UNCHANGED fontEnvVars
    /\ FontFrame

CallRenderImage ==
    /\ font_call.op = "none"
    /\ font_call' = [font_call EXCEPT !.op = "image",
          !.render = ImageWatermarker_add_watermark([kind |-> "image"],
                                                    WatermarkConfig, "PNG")]
    /\ UNCHANGED fontEnvVars
    /\ FontFrame

CallRenderPdf ==
    /\ font_call.op = "none"
    /\ font_call' = [font_call EXCEPT !.op = "pdf",
          !.render = PDFWatermarker_add_watermark([kind |-> "pdf"],
                                                  WatermarkConfig)]
    /\ UNCHANGED fontEnvVars
    /\ FontFrame

FontNext == CallGetFont \/ CallRenderImage \/ CallRenderPdf

\* ------------------------------------------------------------------------
\* The request flows (main.py 76-330) and the files they use
\* (utils/file_handler.py 16-38, 137-164)
\* ------------------------------------------------------------------------

\* Requests are numbered 1..MaxReq; a task's id is its request's number.
MaxReq == 1

ReqIds == 1..MaxReq

\* FileType (models.py 9-14), which request validation admits, and a tag
\* outside it.
FileTypeEnum == {"image", "pdf", "word", "auto"}

RequestTags == FileTypeEnum \cup {"spreadsheet"}

\* config.SUPPORTED_IMAGE_EXTENSIONS (config.py 27).
SUPPORTED_IMAGE_EXTENSIONS ==
    {".jpg", ".jpeg", ".png", ".gif", ".bmp", ".webp", ".tiff"}

\* Extensions a download or an upload arrives with (already lower-cased by
\* get_file_extension).
FlowExts == {".png", ".jpg", ".pdf", ".docx", ".xlsx", ""}

\* detect_file_type (file_handler.py 29-38).
detect_file_type(extension) ==
    LET ext == LowerExt(extension)
    IN  IF ext \in SUPPORTED_IMAGE_EXTENSIONS THEN "image"
        ELSE IF ext = ".pdf" THEN "pdf"
        ELSE IF ext \in {".docx", ".doc"} THEN "word"
        ELSE "unknown"

\* The type a flow settles on: whether it goes on, and with which tag.
TypeOk(t) == [ok |-> TRUE, file_type |-> t]

TypeRejected == [ok |-> FALSE, file_type |-> "unknown"]

\* Lines 288-291, the background task: the detected type is passed on
\* whatever it is.
task_file_type(tag, ext) ==
    IF tag = "auto" THEN TypeOk(detect_file_type(ext)) ELSE TypeOk(tag)

\* A slip the endpoints are checked against: the detected type passed on
\* without the check for "unknown".
endpoint_file_type_unchecked(tag, ext) ==
    IF tag = "auto" THEN TypeOk(detect_file_type(ext)) ELSE TypeOk(tag)

\* Lines 127-133 (URL endpoint) and 199-205 (upload endpoint): with AUTO an
\* undetectable type ends the request with HTTP 400.
endpoint_file_type(tag, ext) ==
    IF tag = "auto"
    THEN IF detect_file_type(ext) = "unknown"
         THEN TypeRejected
         ELSE TypeOk(detect_file_type(ext))
    ELSE TypeOk(tag)

\* What save_output_file (file_handler.py 137-141) may leave: the complete
\* file, or, when write_bytes raises, nothing or a partial file.
SaveOutcomes == {"complete", "partial", "absent"}

\* What happens after the render, in a flow: the file written, whether the
\* flow ends in success, whether a download URL is produced.
FlowEnd(file, success) == [file |-> file, success |-> success]

\* A slip the flows are checked against: the result is saved whether or
\* not the render raised.
after_render_saves_always(render_ok, save) ==
    FlowEnd(save, render_ok /\ save = "complete")

\* Another slip: the flow counts as done as soon as the render returned,
\* whether or not the save did.
after_render_ignores_save(render_ok, save) ==
    IF ~render_ok THEN FlowEnd("absent", FALSE)
    ELSE FlowEnd(save, TRUE)

\* Lines 139-159, 219-239, 296-311: the render's exception skips the rest
\* of the try block; otherwise the bytes are saved, and the URL is made
\* only if the save returned.
after_render(render_ok, save) ==
    IF ~render_ok THEN FlowEnd("absent", FALSE)
    ELSE FlowEnd(save, save = "complete")

\* The options a JSON body may carry (config is optional) and those a
\* form carries (every field has a default).
BodyOptionNames == RawOptionNames \ {"defaults"}

FormOptionNames == RawOptionNames \ {"absent"}

\* A request that has not arrived.
NewRequest ==
    [ path |-> "none", pc |-> "new", tag |-> "none", ext |-> "",
      file_type |-> "none", renderer |-> "none", render |-> "none",
      err |-> "none", render_calls |-> 0, code |-> 0, url |-> FALSE,
      reject |-> "none", unsupported_input |-> FALSE, options |-> "none" ]

\* A registry entry (lines 258-262); "absent" stands for no entry.
NoTask == [status |-> "absent", message |-> "none", download_url |-> FALSE]

FlowIdle ==
    /\ requests = [i \in ReqIds |-> NewRequest]
    /\ tasks = [i \in ReqIds |-> NoTask]
    /\ output_dir = [i \in ReqIds |-> "absent"]

\* The response that ends a request of the two synchronous endpoints.
Respond(r, code, reject) ==
    [r EXCEPT !.pc = "done", !.code = code, !.reject = reject,
              !.tag = "none", !.ext = "", !.file_type = "none",
              !.options = "none"]

\* POST /api/watermark/url arrives (lines 109-121): the body is validated
\* against WatermarkRequest, then the handler starts the download.
SubmitUrl(i) ==
    /\ requests[i].pc = "new"
    /\ \E tag \in RequestTags, opt \in BodyOptionNames :
          requests' = [requests EXCEPT ![i] =
              IF tag \notin FileTypeEnum
              THEN [Respond(@, 422, "validation") EXCEPT
                       !.path = "url", !.unsupported_input = TRUE]
              ELSE IF ~OptionsAccepted(opt)
              THEN [Respond(@, 422, "none") EXCEPT !.path = "url"]
              ELSE [@ EXCEPT !.path = "url", !.pc = "downloading",
                             !.tag = tag, !.options = opt]]
    /\ UNCHANGED <<tasks, output_dir>>
    /\ FlowFrame

\* download_file returns or raises in the URL endpoint (lines 121-145):
\* size check, type resolution, options, and the render is handed to the
\* thread pool.
UrlDownloaded(i) ==
    /\ requests[i].pc = "downloading"
    /\ requests[i].path = "url"
    /\ \E downloaded \in BOOLEAN, too_big \in BOOLEAN, ext \in FlowExts :
          LET r == requests[i]
              t == endpoint_file_type(r.tag, ext)
              unsupported == r.tag = "auto" /\ detect_file_type(ext) = "unknown"
          IN  requests' = [requests EXCEPT ![i] =
                  IF ~downloaded THEN Respond(r, 500, "none")
                  ELSE IF too_big THEN Respond(r, 413, "none")
                  ELSE IF ~t.ok
                  THEN [Respond(r, 400, "endpoint") EXCEPT
                           !.unsupported_input = unsupported]
                  ELSE [r EXCEPT !.pc = "rendering", !.ext = ext,
                                 !.file_type = t.file_type, !.tag = "none",
                                 !.unsupported_input = unsupported]]
    /\ UNCHANGED <<tasks, output_dir>>
    /\ FlowFrame

\* POST /api/watermark/file arrives (lines 167-188): the form is validated,
\* then the handler reads the upload.
SubmitFile(i) ==
    /\ requests[i].pc = "new"
    /\ \E tag \in RequestTags, opt \in FormOptionNames :
          requests' = [requests EXCEPT ![i] =
              IF tag \notin FileTypeEnum
              THEN [Respond(@, 422, "validation") EXCEPT
                       !.path = "file", !.unsupported_input = TRUE]
              ELSE [@ EXCEPT !.path = "file", !.pc = "reading",
                             !.tag = tag, !.options = opt]]
    /\ UNCHANGED <<tasks, output_dir>>
    /\ FlowFrame

\* file.read() returns in the upload endpoint (lines 188-225): size check,
\* extension, type resolution, the options are built from the form fields
\* (WatermarkConfig or WatermarkPosition may raise: HTTP 500), and the
\* render is handed to the thread pool.
FileRead(i) ==
    /\ requests[i].pc = "reading"
    /\ requests[i].path = "file"
    /\ \E too_big \in BOOLEAN, ext \in FlowExts :
          LET r == requests[i]
              config_ok == OptionsAccepted(r.options)
              t == endpoint_file_type(r.tag, ext)
              unsupported == r.tag = "auto" /\ detect_file_type(ext) = "unknown"
          IN  requests' = [requests EXCEPT ![i] =
                  IF too_big THEN Respond(r, 413, "none")
                  ELSE IF ~t.ok
                  THEN [Respond(r, 400, "endpoint") EXCEPT
                           !.unsupported_input = unsupported]
                  ELSE IF ~config_ok THEN Respond(r, 500, "none")
                  ELSE [r EXCEPT !.pc = "rendering", !.ext = ext,
                                 !.file_type = t.file_type, !.tag = "none",
                                 !.unsupported_input = unsupported]]
    /\ UNCHANGED <<tasks, output_dir>>
    /\ FlowFrame

\* POST /api/watermark/async (lines 247-275): the registry entry is
\* created PENDING and the background job is queued.
SubmitTask(i) ==
    /\ requests[i].pc = "new"
    /\ \E tag \in RequestTags, opt \in BodyOptionNames :
          IF tag \notin FileTypeEnum
          THEN /\ requests' = [requests EXCEPT ![i] =
                      [Respond(@, 422, "validation") EXCEPT
                          !.path = "task", !.unsupported_input = TRUE]]
               /\ UNCHANGED tasks
          ELSE IF ~OptionsAccepted(opt)
          THEN /\ requests' = [requests EXCEPT ![i] =
                      [Respond(@, 422, "none") EXCEPT !.path = "task"]]
               /\ UNCHANGED tasks
          ELSE /\ requests' = [requests EXCEPT ![i] =
                      [@ EXCEPT !.path = "task", !.pc = "queued",
                                !.tag = tag, !.options = opt]]
               /\ tasks' = [tasks EXCEPT ![i] =
                      [status |-> "pending", message |-> "created",
                       download_url |-> FALSE]]
    /\ UNCHANGED output_dir
    /\ FlowFrame

\* process_watermark_task starts (lines 280-285): PROCESSING, then the
\* download is awaited.
TaskStart(i) ==
    /\ requests[i].pc = "queued"
    /\ requests' = [requests EXCEPT ![i].pc = "downloading"]
    /\ tasks' = [tasks EXCEPT ![i].status = "processing",
                              ![i].message = "processing"]
    /\ UNCHANGED output_dir
    /\ FlowFrame

\* A slip the background job is checked against: an error of the download
\* ends the job without reaching the except clause.
TaskDownloaded_error_escapes(i) ==
    /\ requests[i].pc = "downloading"
    /\ requests[i].path = "task"
    /\ \E downloaded \in BOOLEAN, ext \in FlowExts :
          LET r == requests[i]
              t == task_file_type(r.tag, ext)
              unsupported == r.tag = "auto" /\ detect_file_type(ext) = "unknown"
          IN  IF ~downloaded
              THEN requests' = [requests EXCEPT ![i] = Respond(r, 0, "none")]
              ELSE requests' = [requests EXCEPT ![i] =
                          [r EXCEPT !.pc = "rendering", !.ext = ext,
                                    !.file_type = t.file_type, !.tag = "none",
                                    !.unsupported_input = unsupported]]
    /\ UNCHANGED <<tasks, output_dir>>
    /\ FlowFrame

\* download_file returns or raises in the background task (lines 285-302,
\* 313-315): no size check, and the type is passed on unchecked.
TaskDownloaded(i) ==
    /\ requests[i].pc = "downloading"
    /\ requests[i].path = "task"
    /\ \E downloaded \in BOOLEAN, ext \in FlowExts :
          LET r == requests[i]
              t == task_file_type(r.tag, ext)
              unsupported == r.tag = "auto" /\ detect_file_type(ext) = "unknown"
          IN  IF ~downloaded
              THEN /\ requests' = [requests EXCEPT ![i] = Respond(r, 0, "none")]
                   /\ tasks' = [tasks EXCEPT ![i].status = "failed",
                                             ![i].message = "failed"]
              ELSE /\ requests' = [requests EXCEPT ![i] =
                          [r EXCEPT !.pc = "rendering", !.ext = ext,
                                    !.file_type = t.file_type, !.tag = "none",
                                    !.unsupported_input = unsupported]]
                   /\ UNCHANGED tasks
    /\ UNCHANGED output_dir
    /\ FlowFrame

\* request.config or WatermarkConfig() (lines 136, 293); the upload
\* endpoint always builds a WatermarkConfig of its own (lines 208-216).
watermark_config(options) ==
    IF RawOptions(options).present THEN RawOptions(options).value
    ELSE WatermarkConfig

\* What a flow keeps of the dispatcher's result: the renderer invoked,
\* whether bytes came back, and the error if it is the dispatcher's own.
RenderSummary(ret) ==
    [ renderer |-> ret.renderer,
      render |-> IF ret.ok THEN "ok" ELSE "raised",
      err |-> IF ret.err = "UnsupportedFileType" THEN ret.err
              ELSE IF ret.ok THEN "none" ELSE "raised" ]

\* The thread pool runs process_watermark_sync (lines 76-90): one call of
\* the dispatcher on the request's bytes and options, whatever they hold.
Render(i) ==
    /\ requests[i].pc = "rendering"
    /\ \E s \in { RenderSummary(add_watermark([kind |-> kind],
                        requests[i].file_type,
                        SomeConfig(watermark_config(requests[i].options)),
                        requests[i].ext)) :
                    kind \in ContentKinds } :
          requests' = [requests EXCEPT ![i] =
              [@ EXCEPT !.pc = "rendered", !.ext = "",
                        !.renderer = s.renderer, !.render = s.render,
                        !.err = s.err, !.render_calls = @ + 1]]
    /\ UNCHANGED <<tasks, output_dir>>
    /\ FlowFrame

\* The await of process_watermark_async returns or raises, and the flow
\* runs to its end: save, URL, response (lines 147-164, 227-244), or save,
\* COMPLETED, URL (lines 304-315).
Continue(i) ==
    /\ requests[i].pc = "rendered"
    /\ \E save \in SaveOutcomes :
          LET r == requests[i]
              e == after_render(r.render = "ok", save)
              reject == IF r.err = "UnsupportedFileType"
                        THEN "dispatcher" ELSE "none"
          IN  /\ output_dir' = [output_dir EXCEPT ![i] = e.file]
              /\ requests' = [requests EXCEPT ![i] =
                    [Respond(r, IF r.path = "task" THEN 0
                                ELSE IF e.success THEN 200 ELSE 500, reject)
                     EXCEPT !.url = (e.success /\ r.path # "task")]]
              /\ tasks' = IF r.path # "task" THEN tasks
                          ELSE IF e.success
                          THEN [tasks EXCEPT ![i] =
                                  [status |-> "completed", message |-> "done",
                                   download_url |-> TRUE]]
                          ELSE [tasks EXCEPT ![i].status = "failed",
                                             ![i].message = "failed"]
    /\ FlowFrame

\* cleanup_old_files (file_handler.py 149-164) removes an output file that
\* has outlived its retention.
Cleanup(i) ==
    /\ output_dir[i] \in {"complete", "partial"}
    /\ output_dir' = [output_dir EXCEPT ![i] = "deleted"]
    /\ UNCHANGED <<requests, tasks>>
    /\ FlowFrame

FlowNext ==
    \E i \in ReqIds :
        \/ SubmitUrl(i)
        \/ UrlDownloaded(i)
        \/ SubmitFile(i)
        \/ FileRead(i)
        \/ SubmitTask(i)
        \/ TaskStart(i)
        \/ TaskDownloaded(i)
        \/ Render(i)
        \/ Continue(i)
        \/ Cleanup(i)


\* ------------------------------------------------------------------------
\* The task registry and its status query (main.py 247-330)
\* ------------------------------------------------------------------------

\* No query has been answered yet.
NoQuery ==
    [ asked |-> FALSE, task_id |-> 0, issued |-> FALSE, found |-> FALSE,
      status |-> "none", download_url |-> FALSE, file |-> "absent" ]

QueryIdle == last_query = NoQuery

\* The async endpoint has answered request i with a task id (lines
\* 270-274): the id is in a client's hands.
TaskIssued(i) ==
    /\ requests[i].path = "task"
    /\ requests[i].code # 422

\* A status query that answers 404 for every id.
get_task_status_not_found(task_id) ==
    [NoQuery EXCEPT !.asked = TRUE, !.task_id = task_id,
                    !.issued = TaskIssued(task_id)]

\* GET /api/task/{task_id} (lines 318-330): 404 if the id is not in the
\* registry, the entry's fields otherwise.  What is kept of the answer is
\* stamped with whether the id had been issued and with the state of the
\* task's output file at that moment.
get_task_status(task_id) ==
    IF tasks[task_id].status = "absent"
    THEN [NoQuery EXCEPT !.asked = TRUE, !.task_id = task_id,
                         !.issued = TaskIssued(task_id)]
    ELSE [ asked |-> TRUE, task_id |-> task_id,
           issued |-> TaskIssued(task_id), found |-> TRUE,
           status |-> tasks[task_id].status,
           download_url |-> tasks[task_id].download_url,
           file |-> output_dir[task_id] ]

QueryTask(i) ==
    /\ last_query' = get_task_status(i)
    /\ last_query' # last_query
    /\ UNCHANGED flowVars
    /\ QueryFrame

\* The async endpoint, its background job and the status query.
TasksNext ==
    \E i \in ReqIds :
        \/ SubmitTask(i)
        \/ TaskStart(i)
        \/ TaskDownloaded(i)
        \/ Render(i)
        \/ Continue(i)
        \/ Cleanup(i)
        \/ QueryTask(i)
\* ------------------------------------------------------------------------
\* Renders in the thread pool (main.py 29-30, 93-106), step by step
\* ------------------------------------------------------------------------

\* The renders that run at once (workers of the pool in use).
MaxJobs == 2

Workers == 1..MaxJobs

\* The filesystems the pool is tried with: at most one font file present.
PoolFileSystems ==
    {f \in FileSystems : Cardinality({p \in FontPaths : f[p] # "absent"}) <= 1}

IdleJob == [kind |-> "none", pc |-> "idle", font |-> "none"]

\* An access of a render to an object: its own input and buffers are
\* named after the worker, the shared ones are "font_files" (the font
\* search configuration and the files it names) and "pdfmetrics" (the
\* font registry of reportlab).
Access(w, obj, mode) == [worker |-> w, obj |-> obj, mode |-> mode]

Own(w) == <<"own", w>>

Shared(name) == <<name, 0>>

PoolIdle ==
    /\ jobs = [w \in Workers |-> IdleJob]
    /\ pdfmetrics_fonts = {"Helvetica"}
    /\ access_log = {}

\* run_in_executor hands a render to a free worker (lines 101-106); the
\* renderer opens its input and allocates its buffers.
StartRender(w) ==
    /\ jobs[w].pc = "idle"
    /\ \E kind \in {"image", "pdf", "word"} :
          jobs' = [jobs EXCEPT ![w] =
                      [kind |-> kind, pc |-> "started", font |-> "none"]]
    /\ access_log' = access_log \cup {Access(w, Own(w), "r"),
                                      Access(w, Own(w), "w")}
    /\ UNCHANGED pdfmetrics_fonts
    /\ PoolFrame

\* The raster renderer resolves its font (line 131): get_font reads the
\* font search configuration and the font files, and writes nothing
\* shared.
ImageResolveFont(w) ==
    /\ jobs[w].kind = "image" /\ jobs[w].pc = "started"
    /\ jobs' = [jobs EXCEPT ![w].pc = "drawing", ![w].font = get_font.font]
    /\ access_log' = access_log \cup {Access(w, Shared("font_files"), "r")}
    /\ UNCHANGED pdfmetrics_fonts
    /\ PoolFrame

\* The PDF overlay walks its candidates (lines 295-318): the first that
\* registers is written into pdfmetrics' registry under its name by
\* registerFont; if none registers nothing is written.
PdfRegisterFont(w) ==
    /\ jobs[w].kind = "pdf" /\ jobs[w].pc = "started"
    /\ jobs' = [jobs EXCEPT ![w].pc = "registered", ![w].font = pdf_font]
    /\ IF pdf_font = "Helvetica"
       THEN /\ access_log' = access_log
                   \cup {Access(w, Shared("font_files"), "r")}
            /\ UNCHANGED pdfmetrics_fonts
       ELSE /\ access_log' = access_log
                   \cup {Access(w, Shared("font_files"), "r"),
                         Access(w, Shared("pdfmetrics"), "w")}
            /\ pdfmetrics_fonts' = pdfmetrics_fonts \cup {pdf_font}
    /\ PoolFrame

\* c.setFont(font_name, size) (line 320) looks the name up in the
\* registry; then the overlay is drawn into the render's own buffer.
PdfSetFont(w) ==
    /\ jobs[w].kind = "pdf" /\ jobs[w].pc = "registered"
    /\ jobs[w].font \in pdfmetrics_fonts
    /\ jobs' = [jobs EXCEPT ![w].pc = "drawing"]
    /\ access_log' = access_log \cup {Access(w, Shared("pdfmetrics"), "r")}
    /\ UNCHANGED pdfmetrics_fonts
    /\ PoolFrame

\* The Word renderer resolves no font: it goes straight to its document.
WordInsertShape(w) ==
    /\ jobs[w].kind = "word" /\ jobs[w].pc = "started"
    /\ jobs' = [jobs EXCEPT ![w].pc = "drawing"]
    /\ UNCHANGED <<pdfmetrics_fonts, access_log>>
    /\ PoolFrame

\* The render writes its result into its own buffer and returns it.
FinishRender(w) ==
    /\ jobs[w].pc = "drawing"
    /\ jobs' = [jobs EXCEPT ![w].pc = "done"]
    /\ access_log' = access_log \cup {Access(w, Own(w), "w")}
    /\ UNCHANGED pdfmetrics_fonts
    /\ PoolFrame

PoolNext ==
    \E w \in Workers :
        \/ StartRender(w)
        \/ ImageResolveFont(w)
        \/ PdfRegisterFont(w)
        \/ PdfSetFont(w)
        \/ WordInsertShape(w)
        \/ FinishRender(w)

\* ------------------------------------------------------------------------
\* The specifications
\* ------------------------------------------------------------------------

RgbIdle ==
    /\ hex_color = <<>>
    /\ rgb_ret = NoCall

RgbaIdle ==
    /\ rgba_args = [hex |-> <<>>, n |-> 0]
    /\ rgba_ret = NoCall

CallHexToRgb ==
    /\ ~rgb_ret.called
    /\ rgb_ret' = hex_to_rgb(hex_color)
    /\ UNCHANGED hex_color
    /\ RgbFrame

CallHexToRgba ==
    /\ ~rgba_ret.called
    /\ rgba_ret' = hex_to_rgba(rgba_args.hex, rgba_args.n, OpacityDen)
    /\ UNCHANGED rgba_args
    /\ RgbaFrame

InitRgb ==
    /\ hex_color \in SeqsUpTo(HexAlphabet, MaxHexLen)
    /\ rgb_ret = NoCall
    /\ RgbaIdle /\ FontEnvIdle /\ FontCallIdle /\ GeomIdle /\ DispatchIdle
    /\ FlowIdle /\ PoolIdle
    /\ CornerIdle
    /\ PdfIdle
    /\ QueryIdle

NextRgb == CallHexToRgb

SpecRgb == InitRgb /\ [][NextRgb]_vars

InitRgba ==
    /\ rgba_args \in [hex : ColorSamples, n : 0..OpacityDen]
    /\ rgba_ret = NoCall
    /\ RgbIdle /\ FontEnvIdle /\ FontCallIdle /\ GeomIdle /\ DispatchIdle
    /\ FlowIdle /\ PoolIdle
    /\ CornerIdle
    /\ PdfIdle
    /\ QueryIdle

NextRgba == CallHexToRgba

SpecRgba == InitRgba /\ [][NextRgba]_vars

InitFont ==
    /\ FontEnvInit /\ FontCallIdle
    /\ RgbIdle /\ RgbaIdle /\ GeomIdle /\ DispatchIdle /\ FlowIdle /\ PoolIdle
    /\ CornerIdle
    /\ PdfIdle
    /\ QueryIdle

NextFont == FontNext

SpecFont == InitFont /\ [][NextFont]_vars

InitGeom ==
    /\ geom_in \in GeomInputs
    /\ geom_out = GeomNoCall
    /\ RgbIdle /\ RgbaIdle /\ FontEnvIdle /\ FontCallIdle /\ DispatchIdle
    /\ FlowIdle /\ PoolIdle
    /\ CornerIdle
    /\ PdfIdle
    /\ QueryIdle

NextGeom == PlaceTile \/ PlaceCenter \/ PlaceCorner

SpecGeom == InitGeom /\ [][NextGeom]_vars

InitDispatch ==
    /\ DispatchInit
    /\ RgbIdle /\ RgbaIdle /\ FontEnvIdle /\ FontCallIdle /\ GeomIdle
    /\ FlowIdle /\ PoolIdle
    /\ CornerIdle
    /\ PdfIdle
    /\ QueryIdle

NextDispatch == CallAddWatermark

SpecDispatch == InitDispatch /\ [][NextDispatch]_vars

Init ==
    /\ FlowIdle
    /\ RgbIdle /\ RgbaIdle /\ FontEnvIdle /\ FontCallIdle /\ GeomIdle
    /\ DispatchIdle /\ PoolIdle
    /\ CornerIdle
    /\ PdfIdle
    /\ QueryIdle

Next == FlowNext

Spec == Init /\ [][Next]_vars

InitPool ==
    /\ PoolIdle
    /\ fs \in PoolFileSystems
    /\ custom_font_path \in CustomSettings
    /\ glob_order \in GlobOrders
    /\ RgbIdle /\ RgbaIdle /\ FontCallIdle /\ GeomIdle /\ DispatchIdle
    /\ FlowIdle
    /\ CornerIdle
    /\ PdfIdle
    /\ QueryIdle

NextPool == PoolNext

SpecPool == InitPool /\ [][NextPool]_vars


InitCorner ==
    /\ corner_in \in CornerInputs
    /\ corner_out = <<>>
    /\ RgbIdle /\ RgbaIdle /\ FontEnvIdle /\ FontCallIdle /\ GeomIdle
    /\ DispatchIdle /\ FlowIdle /\ PoolIdle
    /\ PdfIdle
    /\ QueryIdle

NextCorner == CallRasterCorner \/ CallPageCorner

SpecCorner == InitCorner /\ [][NextCorner]_vars

InitPdf ==
    /\ PdfInit
    /\ RgbIdle /\ RgbaIdle /\ FontEnvIdle /\ FontCallIdle /\ GeomIdle
    /\ DispatchIdle /\ FlowIdle /\ PoolIdle /\ CornerIdle
    /\ QueryIdle

NextPdf == PdfCreateOverlay \/ PdfOpenInput \/ PdfMergePage \/ PdfWrite

SpecPdf == InitPdf /\ [][NextPdf]_vars

InitTasks == Init

NextTasks == TasksNext

SpecTasks == InitTasks /\ [][NextTasks]_vars

\* The background job is run by the event loop once the response is sent,
\* and each of its awaits (download, render) returns or raises: every step
\* of a job that can be taken is eventually taken.  Submissions, queries
\* and the file cleanup are under no such obligation.
TasksFairness ==
    \A i \in ReqIds :
        /\ WF_vars(TaskStart(i))
        /\ WF_vars(TaskDownloaded(i))
        /\ WF_vars(Render(i))
        /\ WF_vars(Continue(i))

SpecTasksFair == InitTasks /\ [][NextTasks]_vars /\ TasksFairness

\* ------------------------------------------------------------------------
\* C1
\* ------------------------------------------------------------------------

SupportedTags == {"image", "pdf", "word"}

\* C1: the dispatcher invokes the renderer named by the tag ('image',
\* 'pdf', 'word') and no other; for every other tag it raises the
\* unsupported-file-type error, invokes no renderer and returns nothing;
\* the renderer receives the caller's options, and when they are absent the
\* defaults: font_size 40, colour #808080, opacity 0.3, angle -45,
\* spacing 100, position TILE.
C1_RoutesByTag ==
    disp_ret.called =>
        LET t == disp_args.file_type
            c == disp_ret.config
        IN  /\ t \in SupportedTags => disp_ret.renderer = t
            /\ t \notin SupportedTags =>
                  /\ disp_ret.renderer = "none"
                  /\ ~disp_ret.ok
                  /\ disp_ret.err = "UnsupportedFileType"
            /\ disp_ret.err = "UnsupportedFileType" => t \notin SupportedTags
            /\ disp_args.config.present => c = disp_args.config.value
            /\ ~disp_args.config.present =>
                  /\ c.font_size = 40
                  /\ c.font_color = <<"#", "8", "0", "8", "0", "8", "0">>
                  /\ 10 * c.opacity.n = 3 * c.opacity.d
                  /\ c.angle = -45
                  /\ c.spacing = 100
                  /\ c.position = "tile"

\* An image was routed to the image renderer without options, and the
\* render returned.
C1_Witness ==
    /\ disp_ret.called /\ disp_ret.ok
    /\ disp_args.file_type = "image"
    /\ ~disp_args.config.present
    /\ disp_ret.renderer = "image"

\* ------------------------------------------------------------------------
\* C2
\* ------------------------------------------------------------------------

\* C2 as stated: in every request path, a request whose type is none of
\* image, pdf, word is rejected by the dispatcher's error and by no other
\* check.
C2_DispatcherIsOnlyRejection ==
    \A i \in ReqIds :
        (requests[i].pc = "done" /\ requests[i].unsupported_input) =>
            requests[i].reject = "dispatcher"

\* C2 amended: only the background task passes an undetectable type on to
\* the dispatcher, whose unsupported-file-type error (no renderer invoked)
\* fails the task; the URL and the upload endpoint reject an undetectable
\* type themselves with HTTP 400 before any render is started, and a tag
\* outside FileType is rejected by request validation (HTTP 422) in all
\* three paths.
C2_RejectionPerPath ==
    \A i \in ReqIds :
        LET r == requests[i]
        IN  /\ r.reject = "dispatcher" =>
                  /\ r.path = "task"
                  /\ r.unsupported_input
                  /\ r.renderer = "none"
                  /\ r.render_calls = 1
                  /\ tasks[i].status = "failed"
            /\ r.reject = "endpoint" =>
                  /\ r.path \in {"url", "file"}
                  /\ r.unsupported_input
                  /\ r.code = 400
                  /\ r.render_calls = 0
            /\ r.reject = "validation" =>
                  /\ r.code = 422
                  /\ r.render_calls = 0
            /\ (r.pc = "done" /\ r.unsupported_input) =>
                  /\ r.path \in {"url", "file"} =>
                        r.reject \in {"endpoint", "validation"}
                  /\ r.path = "task" =>
                        r.reject \in {"dispatcher", "validation"}
                  /\ r.render # "ok"
                  /\ output_dir[i] = "absent"

\* A background task whose download had an undetectable type was failed by
\* the dispatcher's error.
C2_Witness ==
    \E i \in ReqIds :
        /\ requests[i].pc = "done"
        /\ requests[i].path = "task"
        /\ requests[i].unsupported_input
        /\ requests[i].reject = "dispatcher"
        /\ tasks[i].status = "failed"

\* ------------------------------------------------------------------------
\* C3
\* ------------------------------------------------------------------------

\* C3: in each flow the render is called at most once (no retry); an
\* output file is written only after the render returned; a download URL
\* is returned or recorded only after the render returned and the file was
\* written completely; a flow that ended without a successful render
\* (download, type detection or render failed) left no file and no URL.
C3_SaveOnlyAfterRender ==
    \A i \in ReqIds :
        LET r == requests[i]
        IN  /\ r.render_calls <= 1
            /\ output_dir[i] # "absent" => r.render = "ok"
            /\ (r.url \/ tasks[i].download_url) =>
                  /\ r.render = "ok"
                  /\ output_dir[i] \in {"complete", "deleted"}
            /\ (r.pc = "done" /\ r.render # "ok") =>
                  /\ output_dir[i] = "absent"
                  /\ ~r.url
                  /\ ~tasks[i].download_url
                  /\ r.code # 200
                  /\ tasks[i].status # "completed"

\* A render raised in a flow that had a supported type, and the flow ended.
C3_Witness ==
    \E i \in ReqIds :
        /\ requests[i].pc = "done"
        /\ requests[i].render = "raised"
        /\ requests[i].renderer # "none"
        /\ requests[i].render_calls = 1
        /\ output_dir[i] = "absent"

\* ------------------------------------------------------------------------
\* C4
\* ------------------------------------------------------------------------

\* C4: no render writes an object that another render reads or writes.
C4_NoSharedWrites ==
    \A a \in access_log, b \in access_log :
        (a.mode = "w" /\ a.worker # b.worker) => a.obj # b.obj

\* ------------------------------------------------------------------------
\* C5
\* ------------------------------------------------------------------------

\* The place of a path in the order the claim gives: 0 for the custom path
\* when it is set and present, 1..10 for the entries of the predefined
\* list, 11 for a file under the font root, 12 for a path that is no
\* candidate.
C5_Place(p) ==
    IF custom_font_path # "" /\ p = custom_font_path /\ PathExists(p) THEN 0
    ELSE IF p \in PredefinedPaths
    THEN CHOOSE i \in 1..Len(CHINESE_FONT_PATHS) : CHINESE_FONT_PATHS[i] = p
    ELSE IF p \in FontRootFiles THEN 11
    ELSE 12

\* The candidates that exist and load, for the raster library and for the
\* PDF library.
C5_Loadable ==
    {p \in FontPaths : C5_Place(p) < 12 /\ PathExists(p) /\ TruetypeLoads(p)}

C5_Registerable ==
    {p \in FontPaths : C5_Place(p) < 12 /\ PathExists(p) /\ TTFontLoads(p)}

\* f is a first candidate of the set, or the fallback when it is empty.
C5_IsFirst(f, candidates, fallback) ==
    IF candidates = {} THEN f = fallback
    ELSE /\ f \in candidates
         /\ \A q \in candidates : C5_Place(f) <= C5_Place(q)

\* C5: the font returned is the first candidate, in the order custom path
\* (if set and present), predefined list in list order, scanned files,
\* that exists and loads; candidates that are absent or fail to load are
\* skipped; the built-in default is returned only when no candidate
\* exists and loads.  The same holds for the font the PDF overlay
\* registers, with Helvetica as its fallback.
C5_FirstLoadableWins ==
    /\ font_call.op = "get_font" =>
          /\ font_call.font.ok
          /\ C5_IsFirst(font_call.font.font, C5_Loadable, "load_default")
    /\ (font_call.op = "image" /\ font_call.render.ok) =>
          C5_IsFirst(font_call.render.font, C5_Loadable, "load_default")
    /\ (font_call.op = "pdf" /\ font_call.render.ok) =>
          C5_IsFirst(font_call.render.font, C5_Registerable, "Helvetica")

\* get_font skipped a predefined file that exists but does not load and
\* returned a scanned file.
C5_Witness ==
    /\ font_call.op = "get_font"
    /\ \E p \in PredefinedPaths : fs[p] = "corrupt"
    /\ font_call.font.font \in FontRootFiles \ PredefinedPaths

\* ------------------------------------------------------------------------
\* C6
\* ------------------------------------------------------------------------

\* C6: whatever candidate files are absent, present but unloadable, or
\* loadable, get_font returns a font (the built-in default when no
\* candidate loads), and the raster and the PDF render of a well-formed
\* input return with a font; no font error is raised.
C6_FontNeverFails ==
    /\ font_call.op = "get_font" =>
          /\ font_call.font.ok
          /\ font_call.font.font # "none"
          /\ C5_Loadable = {} => font_call.font.font = "load_default"
    /\ font_call.op \in {"image", "pdf"} =>
          /\ font_call.render.ok
          /\ font_call.render.font # "none"
    /\ (font_call.op = "image" /\ C5_Loadable = {}) =>
          font_call.render.font = "load_default"
    /\ (font_call.op = "pdf" /\ C5_Registerable = {}) =>
          font_call.render.font = "Helvetica"

\* A raster render returned with the built-in default although the custom
\* path is set (its file is absent) and a candidate file exists that does
\* not load.
C6_Witness ==
    /\ font_call.op = "image"
    /\ font_call.render.ok
    /\ font_call.render.font = "load_default"
    /\ custom_font_path # ""
    /\ ~PathExists(custom_font_path)
    /\ \E p \in FontPaths : fs[p] = "corrupt"
\* ------------------------------------------------------------------------
\* C7
\* ------------------------------------------------------------------------

\* One optional leading '#' removed, as the claim describes the stripping.
StripOne(s) == IF s # <<>> /\ Head(s) = "#" THEN Tail(s) ELSE s

IsSixHexDigits(s) == Len(s) = 6 /\ \A i \in 1..6 : s[i] \in HexDigits

\* C7: hex_to_rgb returns if and only if the string, with one optional
\* leading '#' removed, is exactly six hex digits (it raises for every
\* other string); what it returns are three values in 0..255, the same
\* for the upper-case and the lower-case spelling.
C7_RejectsAllButSixHexDigits ==
    rgb_ret.called =>
        /\ rgb_ret.ok <=> IsSixHexDigits(StripOne(hex_color))
        /\ rgb_ret.ok =>
              /\ \A i \in 1..3 : rgb_ret.val[i] \in 0..255
              /\ hex_to_rgb(Lower(hex_color)) = rgb_ret
              /\ hex_to_rgb(Upper(hex_color)) = rgb_ret

\* ------------------------------------------------------------------------
\* C8
\* ------------------------------------------------------------------------

\* C8 as stated: the alpha is the integer nearest to opacity * 255
\* (|a - opacity*255| <= 1/2), in 0..255, 0 at opacity 0, 255 at opacity 1.
C8_AlphaIsNearest ==
    (rgba_ret.called /\ rgba_ret.ok) =>
        LET a == rgba_ret.val[4]
            n == rgba_args.n
            diff == a * OpacityDen - n * 255
        IN  /\ 2 * diff <= OpacityDen
            /\ 2 * diff >= 0 - OpacityDen
            /\ a \in 0..255
            /\ (n = 0 => a = 0)
            /\ (n = OpacityDen => a = 255)

\* C8 amended: the alpha is opacity * 255 truncated, the largest integer
\* not above it (a <= opacity*255 < a + 1), in 0..255, 0 at opacity 0 and
\* 255 at opacity 1; r, g, b are those of hex_to_rgb, and hex_to_rgba
\* raises exactly when hex_to_rgb does.
C8_AlphaIsTruncated ==
    rgba_ret.called =>
        LET n == rgba_args.n
            c == hex_to_rgb(rgba_args.hex)
        IN  /\ rgba_ret.ok <=> c.ok
            /\ rgba_ret.ok =>
                  LET a == rgba_ret.val[4]
                  IN  /\ Len(rgba_ret.val) = 4
                      /\ SubSeq(rgba_ret.val, 1, 3) = c.val
                      /\ a * OpacityDen <= n * 255
                      /\ n * 255 < (a + 1) * OpacityDen
                      /\ a \in 0..255
                      /\ (n = 0 => a = 0)
                      /\ (n = OpacityDen => a = 255)

\* An opacity whose product with 255 has a fraction of at least one half
\* has been converted.
C8_Witness ==
    /\ rgba_ret.called /\ rgba_ret.ok
    /\ rgba_args.hex = DefaultColor
    /\ 2 * ((rgba_args.n * 255) % OpacityDen) >= OpacityDen


\* ------------------------------------------------------------------------
\* C9
\* ------------------------------------------------------------------------

\* The surface is the square of side floor(1.5 * sqrt(w^2 + h^2)), the
\* text is drawn exactly at the grid points below the side, the crop box
\* has the canvas's dimensions, lies inside the surface and is centred on
\* it up to the rounding of the two halvings.
C9_SurfaceGridAndCrop ==
    LET i == geom_in
        o == geom_out
        s == o.temp_size
        step_x == i.text_width + i.spacing
        step_y == i.text_height + i.spacing
    IN  /\ 4 * s * s <= 9 * (i.w * i.w + i.h * i.h)
        /\ 9 * (i.w * i.w + i.h * i.h) < 4 * (s + 1) * (s + 1)
        /\ o.draws \subseteq (0..(s - 1)) \X (0..(s - 1))
        /\ \A x \in 0..(s - 1), y \in 0..(s - 1) :
              <<x, y>> \in o.draws <=> (x % step_x = 0 /\ y % step_y = 0)
        /\ o.right - o.left = i.w
        /\ o.bottom - o.top = i.h
        /\ 0 <= o.left /\ o.right <= s
        /\ 0 <= o.top /\ o.bottom <= s
        /\ (o.left + o.right) - s \in {-1, 0, 1}
        /\ (o.top + o.bottom) - s \in {-1, 0, 1}
        /\ o.surface_rotation = i.angle

\* The point <<x, y>> is within side/2 of the centre <<side/2, side/2>>
\* of the surface; the coordinates are given doubled.
WithinHalfSide(x2, y2, s) ==
    (x2 - s) * (x2 - s) + (y2 - s) * (y2 - s) <= s * s

\* C9 as stated: surface, grid and crop as above, and every point of the
\* crop window (its corners are the farthest) is within side/2 of the
\* surface centre.
C9_EveryPointWithinRadius ==
    geom_out.kind = "tile" =>
        /\ C9_SurfaceGridAndCrop
        /\ \A x \in {geom_out.left, geom_out.right},
              y \in {geom_out.top, geom_out.bottom} :
              WithinHalfSide(2 * x, 2 * y, geom_out.temp_size)

\* C9 amended: surface, grid and crop as above, and the centre of every
\* pixel of the crop window is within side/2 of the surface centre, so
\* every canvas pixel is sampled inside the surface at every angle; every
\* point of the crop window is within that distance unless the canvas is
\* one of 1x1, 1x2, 2x1, 1x3, 3x1.
C9_EveryPixelWithinRadius ==
    geom_out.kind = "tile" =>
        /\ C9_SurfaceGridAndCrop
        /\ \A x \in geom_out.left..(geom_out.right - 1),
              y \in geom_out.top..(geom_out.bottom - 1) :
              WithinHalfSide(2 * x + 1, 2 * y + 1, geom_out.temp_size)
        /\ (Min(geom_in.w, geom_in.h) >= 2 \/ Max(geom_in.w, geom_in.h) >= 4) =>
              \A x \in {geom_out.left, geom_out.right},
                 y \in {geom_out.top, geom_out.bottom} :
                 WithinHalfSide(2 * x, 2 * y, geom_out.temp_size)

\* A wide canvas was tiled at an angle, with more than one grid point per
\* row.
C9_Witness ==
    /\ geom_out.kind = "tile"
    /\ geom_in.w = MaxCanvas
    /\ geom_in.h < geom_in.w
    /\ geom_in.angle # 0
    /\ Cardinality(geom_out.draws) > 1

\* ------------------------------------------------------------------------
\* C10
\* ------------------------------------------------------------------------

\* C10: for CENTER and the four corners, the box of the text drawn at
\* <<x, y>>, [x, x + text_width] x [y, y + text_height], lies within the
\* canvas [0, w] x [0, h] when the angle is 0.
C10_BoxInsideCanvas ==
    (geom_out.kind = "text" /\ geom_in.angle = 0) =>
        \A xy \in geom_out.draws :
            /\ 0 <= xy[1]
            /\ xy[1] + geom_in.text_width <= geom_in.w
            /\ 0 <= xy[2]
            /\ xy[2] + geom_in.text_height <= geom_in.h

\* ------------------------------------------------------------------------
\* C11
\* ------------------------------------------------------------------------

\* The offset the claim gives for a corner: the fixed margin from the two
\* edges that meet in the corner, the text's width subtracted on the right
\* and its height on the side the axis grows to.  On the raster canvas y
\* grows downwards from the top edge; on the page it grows upwards from
\* the bottom edge and the text stands on its baseline.
C11_RasterOffset(corner) ==
    <<IF corner \in {"top_left", "bottom_left"} THEN RasterMargin
      ELSE corner_in.w - corner_in.text_width - RasterMargin,
      IF corner \in {"top_left", "top_right"} THEN RasterMargin
      ELSE corner_in.h - corner_in.text_height - RasterMargin>>

C11_PageOffset(corner) ==
    <<IF corner \in {"top_left", "bottom_left"} THEN 10 * PageMargin
      ELSE 10 * LetterWidth - 6 * corner_in.font_size * corner_in.text_len
             - 10 * PageMargin,
      IF corner \in {"bottom_left", "bottom_right"} THEN 10 * PageMargin
      ELSE 10 * LetterHeight - 10 * PageMargin>>

\* C11: both helpers return, for each of the four corners, the offset at
\* the fixed margin (20 raster, 50 page) from that corner, and for every
\* other position value the offset of TOP_LEFT.
C11_CornersAndDefault ==
    corner_out # <<>> =>
        LET corner == IF corner_in.position \in Corners
                      THEN corner_in.position ELSE "top_left"
        IN  corner_out = IF corner_in.helper = "raster"
                         THEN C11_RasterOffset(corner)
                         ELSE C11_PageOffset(corner)

\* ------------------------------------------------------------------------
\* C12
\* ------------------------------------------------------------------------

\* C12: the overlay is built once per call and merged onto every input
\* page: the pages added so far are the first input pages in their order,
\* each with the overlay merged exactly once, and the returned document
\* has exactly the input's pages, none dropped, duplicated, reordered or
\* left without the overlay.
C12_EveryPageMergedOnce ==
    LET j == pdf_job
    IN  /\ j.overlays_built <= 1
        /\ j.pc \in {"overlay", "merging", "returned"} => j.overlays_built = 1
        /\ Len(j.writer) <= Len(j.input)
        /\ \A i \in 1..Len(j.writer) :
              /\ j.writer[i].content = j.input[i]
              /\ j.writer[i].overlays = 1
        /\ j.pc = "returned" =>
              /\ Len(j.output) = Len(j.input)
              /\ \A i \in 1..Len(j.input) :
                    /\ j.output[i].content = j.input[i]
                    /\ j.output[i].overlays = 1

\* A document of MaxPages pages that are not all alike was returned.
C12_Witness ==
    /\ pdf_job.pc = "returned"
    /\ Len(pdf_job.input) = MaxPages
    /\ pdf_job.input[1] # pdf_job.input[MaxPages]
    /\ Len(pdf_job.output) = MaxPages

\* ------------------------------------------------------------------------
\* C13
\* ------------------------------------------------------------------------

\* The constraints the claim lists for an options value.
C13_WithinConstraints(c) ==
    /\ c.font_size \in 10..200
    /\ 0 <= c.opacity.n /\ c.opacity.n <= c.opacity.d
    /\ c.angle \in -180..180
    /\ c.spacing \in 20..500
    /\ c.position \in {"tile", "center", "top_left", "top_right",
                       "bottom_left", "bottom_right"}
    /\ IsSixHexDigits(StripOne(c.font_color))

\* C13: in every request path, the options a render was started with are
\* within the constraints: font_size in [10,200], opacity in [0,1], angle
\* in [-180,180], spacing in [20,500], position one of the six enum
\* values, font_color a valid hex colour string.
C13_CoreOptionsValidated ==
    \A i \in ReqIds :
        requests[i].pc = "rendered" =>
            C13_WithinConstraints(watermark_config(requests[i].options))

\* ------------------------------------------------------------------------
\* C14
\* ------------------------------------------------------------------------

\* The format the claim gives for an extension, whatever its case.
C14_Format(ext) ==
    CASE ext \in {".jpg", ".JPG", ".jpeg"} -> "JPEG"
      [] ext = ".png" -> "PNG"
      [] ext = ".gif" -> "GIF"
      [] ext = ".bmp" -> "BMP"
      [] ext = ".webp" -> "WEBP"
      [] ext = ".tiff" -> "TIFF"
      [] OTHER -> "PNG"

\* C14: the format the image renderer works with depends on the file
\* extension alone, compared without regard to case (.jpg/.jpeg -> JPEG,
\* .png -> PNG, .gif -> GIF, .bmp -> BMP, .webp -> WEBP, .tiff -> TIFF,
\* anything else -> PNG), whatever the bytes and the options are; a
\* returned result was flattened to an opaque pixel format exactly when
\* the format is JPEG.
C14_FormatByExtension ==
    (disp_ret.called /\ disp_args.file_type = "image") =>
        /\ disp_ret.renderer = "image"
        /\ disp_ret.format = C14_Format(disp_args.file_extension)
        /\ disp_ret.ok => (disp_ret.flattened <=> disp_ret.format = "JPEG")

\* An image with an upper-case .JPG extension was encoded as JPEG and
\* flattened.
C14_Witness ==
    /\ disp_ret.called /\ disp_ret.ok
    /\ disp_args.file_type = "image"
    /\ disp_args.file_extension = ".JPG"
    /\ disp_ret.format = "JPEG"
    /\ disp_ret.flattened

\* ------------------------------------------------------------------------
\* C15
\* ------------------------------------------------------------------------

\* C15: the raster watermark is rotated by the configured angle exactly
\* once.  In TILE mode the surface is rotated by the angle inside the tile
\* helper and the overlay layer is not rotated afterwards; in CENTER and
\* corner modes nothing is rotated before the draw and the whole layer is
\* rotated by the angle if and only if the angle is not 0.
C15_RotatedOnce ==
    /\ geom_out.kind = "tile" =>
          /\ geom_out.surface_rotation = geom_in.angle
          /\ geom_out.layer_rotation = 0
    /\ geom_out.kind = "text" =>
          /\ geom_out.surface_rotation = 0
          /\ geom_out.layer_rotation = geom_in.angle
          /\ geom_out.layer_rotation # 0 <=> geom_in.angle # 0
    /\ geom_out.kind # "none" =>
          geom_out.surface_rotation + geom_out.layer_rotation = geom_in.angle

\* A corner placement was drawn and its layer rotated by a non-zero angle.
C15_Witness ==
    /\ geom_out.kind = "text"
    /\ geom_in.position \in Corners
    /\ geom_in.angle # 0
    /\ geom_out.layer_rotation = geom_in.angle

\* ------------------------------------------------------------------------
\* C16
\* ------------------------------------------------------------------------

\* The status changes the lifecycle allows; "absent" is no entry.
C16_AllowedChanges ==
    { <<"absent", "pending">>, <<"pending", "processing">>,
      <<"processing", "completed">>, <<"processing", "failed">> }

C17_UrlIffCompletedAndSaved ==
    /\ \A i \in ReqIds :
          /\ tasks[i].download_url <=> tasks[i].status = "completed"
          /\ tasks[i].status = "completed" =>
                /\ output_dir[i] \in {"complete", "deleted"}
                /\ requests[i].render = "ok"
                /\ requests[i].render_calls = 1
    /\ last_query.download_url =>
          /\ last_query.status = "completed"
          /\ last_query.file \in {"complete", "deleted"}

\* A status query reported the download URL of a task whose file is saved.
C17_Witness ==
    /\ last_query.asked /\ last_query.download_url
    /\ last_query.file = "complete"
    /\ tasks[last_query.task_id].status = "completed"
    /\ output_dir[last_query.task_id] = "complete"

\* ------------------------------------------------------------------------
\* C18
\* ------------------------------------------------------------------------

\* The background job of task i has ended.
C18_JobEnded(i) ==
    /\ TaskIssued(i)
    /\ requests[i].pc = "done"

\* C18: provided its background job is run and the download and the
\* render return or raise, every task that is PENDING or PROCESSING
\* eventually is COMPLETED or FAILED; a job that has ended has left its
\* task COMPLETED or FAILED, and FAILED with an error message whenever the
\* download, the type (an undetectable one included), the render or the
\* save raised.
C18_EveryTaskEnds ==
    /\ \A i \in ReqIds :
          (tasks[i].status \in {"pending", "processing"})
              ~> (tasks[i].status \in {"completed", "failed"})
    /\ [](\A i \in ReqIds :
            C18_JobEnded(i) =>
                /\ tasks[i].status \in {"completed", "failed"}
                /\ ( \/ requests[i].render # "ok"
                     \/ output_dir[i] \notin {"complete", "deleted"} )
                      => /\ tasks[i].status = "failed"
                         /\ tasks[i].message = "failed")

\* A task whose undetectable type was passed on to the dispatcher, which
\* raised, has ended FAILED.
C18_Witness ==
    \E i \in ReqIds :
        /\ C18_JobEnded(i)
        /\ requests[i].unsupported_input
        /\ requests[i].err = "UnsupportedFileType"
        /\ tasks[i].status = "failed"
        /\ tasks[i].message = "failed"
=============================================================================
